---- MODULE Spec2Model ----
(***************************************************************************)
(* Model of kjyv/pid-autotune: the simulated kettle (src/kettle.py) and    *)
(* the simulation driver (src/sim.py: sim_update, simulate_pid,            *)
(* simulate_autotune).                                                     *)
(*                                                                         *)
(* Python floats are modelled as exact rationals <<numerator,              *)
(* denominator>> (denominator > 0, lowest terms): the arithmetic of the    *)
(* source is reproduced operation by operation, without IEEE rounding.     *)
(* Python objects that the driver mutates (Kettle, deque, list) live in    *)
(* heaps indexed by object identity, so that aliasing is expressible.      *)
(***************************************************************************)
EXTENDS Integers, Sequences, FiniteSets, TLC

VARIABLES
    args,       \* the parsed command line (parser_add_args), never written
    pc,         \* where the program is: "main", "pid_loop", "pid_inner",
                \* "autotune_loop", "done", "raised"; "kettle_new" and
                \* "kettle_ready" when a Kettle is exercised on its own
    timestamp,  \* the local timestamp of simulate_pid / simulate_autotune
    sims,       \* the Simulation tuples, in construction order
    idx,        \* the position of "for sim in sims" (the number of calls
                \* made, when a Kettle is exercised on its own)
    kettles,    \* the Kettle objects, by identity
    deques,     \* the deque objects, by identity
    lists,      \* the list objects, by identity
    sut,        \* the auto-tune controller: the calls of run() made, the
                \* number K of them that report not-complete, its output
    last        \* the last call made: its arguments and what it computed

vars == <<args, pc, timestamp, sims, idx, kettles, deques, lists, sut, last>>

----------------------------------------------------------------------------
(* Rational arithmetic standing for Python float arithmetic.               *)

Abs(n) == IF n < 0 THEN 0 - n ELSE n

RECURSIVE GCD(_, _)
GCD(a, b) == IF b = 0 THEN a ELSE GCD(b, a % b)

RNorm(n, d) ==
    LET g == GCD(Abs(n), Abs(d))
        s == IF d < 0 THEN 0 - 1 ELSE 1
    IN  <<(s * n) \div g, (s * d) \div g>>

R(n) == <<n, 1>>

RNeg(a) == <<0 - a[1], a[2]>>

RAdd(a, b) ==
    LET g == GCD(a[2], b[2])
    IN  RNorm(a[1] * (b[2] \div g) + b[1] * (a[2] \div g), (a[2] \div g) * b[2])

RSub(a, b) == RAdd(a, RNeg(b))

RMul(a, b) ==
    LET g1 == GCD(Abs(a[1]), b[2])
        g2 == GCD(Abs(b[1]), a[2])
    IN  RNorm((a[1] \div g1) * (b[1] \div g2), (a[2] \div g2) * (b[2] \div g1))

\* a / b for b # 0 (Python raises ZeroDivisionError for b = 0; callers test).
RDiv(a, b) == RMul(a, RNorm(b[2], b[1]))

RLt(a, b) == RSub(a, b)[1] < 0

RLe(a, b) == RSub(a, b)[1] <= 0

\* Python max(a, b) and min(a, b) on floats.
RMax(a, b) == IF RLt(a, b) THEN b ELSE a

RMin(a, b) == IF RLt(b, a) THEN b ELSE a

\* Python 3 round(x): nearest integer, ties to the even integer.
PyRound(a) ==
    LET fl == a[1] \div a[2]
        rem2 == 2 * (a[1] - fl * a[2])
    IN  IF rem2 < a[2] THEN fl
        ELSE IF rem2 > a[2] THEN fl + 1
        ELSE IF fl % 2 = 0 THEN fl ELSE fl + 1

\* Python max(a, b) on ints.
IMax(a, b) == IF a < b THEN b ELSE a

----------------------------------------------------------------------------
(* src/kettle.py                                                           *)

DENSITY_WATER == <<997, 1000>>

SPECIFIC_HEAT_CAP_WATER == <<21, 5>>

SPECIFIC_HEAT_CAP_BRASS == <<2, 5>>

THERMAL_CONDUCTIVITY_BRASS == 96

THERMAL_CONDUCTIVITY_KETTLE == RMul(R(THERMAL_CONDUCTIVITY_BRASS), <<1, 2>>)

\* math.pi, as a rational.
math_pi == <<22, 7>>

\* heat()'s default efficiency, 0.98.
DEFAULT_EFFICIENCY == <<49, 50>>

ZeroDivisionError == [raised |-> "ZeroDivisionError"]

Raised(v) == "raised" \in DOMAIN v

\* Kettle.__init__: the new object, or the exception the division by
\* math.pi * radius^2 raises when the radius is 0.
Kettle_init(diameter, volume, temp, kettleMass) ==
    LET radius == RDiv(diameter, R(2))
        r2 == RMul(radius, radius)
        base == RMul(math_pi, r2)
    IN  IF base[1] = 0 THEN ZeroDivisionError
        ELSE LET height == RDiv(RMul(volume, R(1000)), base)
                 caps == RMul(RMul(R(2), math_pi), r2)
                 side == RMul(RMul(RMul(R(2), math_pi), radius), height)
             IN  [waterMass |-> RMul(volume, DENSITY_WATER),
                  temp |-> temp,
                  surface |-> RDiv(RAdd(caps, side), R(10000)),
                  kettleMass |-> kettleMass]

\* The denominator of _get_deltaT.
ThermalMass(self) ==
    RAdd(RMul(SPECIFIC_HEAT_CAP_WATER, self.waterMass),
         RMul(SPECIFIC_HEAT_CAP_BRASS, self.kettleMass))

get_deltaT(self, power, duration) ==
    RDiv(RMul(power, duration), ThermalMass(self))

\* Kettle.heat with the default efficiency: the kettle after the call.
heat(self, power, duration) ==
    [self EXCEPT !.temp =
        RAdd(self.temp, get_deltaT(self, RMul(power, DEFAULT_EFFICIENCY), duration))]

\* Mutant of cool_power: the loss computed from the size of the temperature
\* difference, so that a kettle colder than the air would lose heat too.
cool_power_unsigned(self, duration, ambient_temp) ==
    LET diff == RSub(self.temp, ambient_temp)
    IN  RDiv(RDiv(RMul(RMul(THERMAL_CONDUCTIVITY_KETTLE, self.surface),
                       <<Abs(diff[1]), diff[2]>>),
                  duration),
             R(1000))

\* Mutant of cool_power: the loss is not divided by the duration.
cool_power_undivided(self, duration, ambient_temp) ==
    RDiv(RMul(RMul(THERMAL_CONDUCTIVITY_KETTLE, self.surface),
              RSub(self.temp, ambient_temp)),
         R(1000))

\* The loss power computed by Kettle.cool, in kW.
cool_power(self, duration, ambient_temp) ==
    RDiv(RDiv(RMul(RMul(THERMAL_CONDUCTIVITY_KETTLE, self.surface),
                   RSub(self.temp, ambient_temp)),
              duration),
         R(1000))

\* Kettle.cool: the kettle after the call.
cool(self, duration, ambient_temp, heat_loss_factor) ==
    [self EXCEPT !.temp =
        RSub(self.temp,
             RMul(get_deltaT(self, cool_power(self, duration, ambient_temp), duration),
                  heat_loss_factor))]

----------------------------------------------------------------------------
(* collections.deque(maxlen=n) and the driver's objects (src/sim.py)       *)

NewDeque(maxlen) == [maxlen |-> maxlen, items |-> <<>>]

\* Mutant of deque_append: a plain list, which never drops an item.
deque_append_unbounded(d, x) == [d EXCEPT !.items = Append(@, x)]

\* Mutant of deque_append: a full deque drops its rightmost item.
deque_append_drops_newest(d, x) ==
    IF d.maxlen = 0 THEN d
    ELSE IF Len(d.items) >= d.maxlen
         THEN [d EXCEPT !.items = Append(SubSeq(@, 1, Len(@) - 1), x)]
         ELSE [d EXCEPT !.items = Append(@, x)]

\* deque.append on a bounded deque: a full deque drops its leftmost item.
deque_append(d, x) ==
    IF d.maxlen = 0 THEN d
    ELSE IF Len(d.items) >= d.maxlen
         THEN [d EXCEPT !.items = Append(Tail(@), x)]
         ELSE [d EXCEPT !.items = Append(@, x)]

RECURSIVE deque_extend(_, _)
deque_extend(d, xs) ==
    IF xs = <<>> THEN d ELSE deque_extend(deque_append(d, Head(xs)), Tail(xs))

\* maxlen * [x]
Repeat(n, x) == [j \in 1..n |-> x]

\* max(1, round(args.delay / args.sampletime))
delayed_temps_len(a) == IMax(1, PyRound(RDiv(a.delay, a.sampletime)))

\* Mutant of Simulation: every run is handed the same deque object.
Simulation_shared_deque(i, name) ==
    [name |-> name, sut |-> i, kettle |-> i, delayed_temps |-> 1,
     timestamps |-> 4 * (i - 1) + 1, heater_temps |-> 4 * (i - 1) + 2,
     sensor_temps |-> 4 * (i - 1) + 3, outputs |-> 4 * (i - 1) + 4]

\* The i-th Simulation tuple that a driver constructs: its fields name the
\* objects it owns (a controller, a Kettle, a deque and four fresh lists),
\* each by its identity in the heap of its kind.
Simulation(i, name) ==
    [name |-> name, sut |-> i, kettle |-> i, delayed_temps |-> i,
     timestamps |-> 4 * (i - 1) + 1, heater_temps |-> 4 * (i - 1) + 2,
     sensor_temps |-> 4 * (i - 1) + 3, outputs |-> 4 * (i - 1) + 4]

\* Mutant of sim_update: the sensor temperature is read before the push.
sim_update_sensor_before_push(sim, ts, output) ==
    LET power == RMul(args.heater_power, RDiv(output, args.out_max))
        k1 == heat(kettles[sim.kettle], power, args.sampletime)
        k2 == cool(k1, args.sampletime, args.ambient_temp, args.heat_loss_factor)
        d2 == deque_append(deques[sim.delayed_temps], k2.temp)
        l1 == [lists EXCEPT ![sim.timestamps] = Append(@, ts)]
        l2 == [l1 EXCEPT ![sim.outputs] = Append(@, output)]
        l3 == [l2 EXCEPT ![sim.sensor_temps] =
                  Append(@, deques[sim.delayed_temps].items[1])]
        l4 == [l3 EXCEPT ![sim.heater_temps] = Append(@, k2.temp)]
    IN  [kettles |-> [kettles EXCEPT ![sim.kettle] = k2],
         deques |-> [deques EXCEPT ![sim.delayed_temps] = d2],
         lists |-> l4,
         power |-> power,
         heated |-> k1.temp]

\* Mutant of sim_update: the output is not recorded.
sim_update_output_not_recorded(sim, ts, output) ==
    LET power == RMul(args.heater_power, RDiv(output, args.out_max))
        k1 == heat(kettles[sim.kettle], power, args.sampletime)
        k2 == cool(k1, args.sampletime, args.ambient_temp, args.heat_loss_factor)
        d2 == deque_append(deques[sim.delayed_temps], k2.temp)
        l1 == [lists EXCEPT ![sim.timestamps] = Append(@, ts)]
        l3 == [l1 EXCEPT ![sim.sensor_temps] = Append(@, d2.items[1])]
        l4 == [l3 EXCEPT ![sim.heater_temps] = Append(@, k2.temp)]
    IN  [kettles |-> [kettles EXCEPT ![sim.kettle] = k2],
         deques |-> [deques EXCEPT ![sim.delayed_temps] = d2],
         lists |-> l4,
         power |-> power,
         heated |-> k1.temp]

\* Mutant of sim_update: the output is taken as a percentage, whatever
\* args.out_max is.
sim_update_percent(sim, ts, output) ==
    LET power == RMul(args.heater_power, RDiv(output, R(100)))
        k1 == heat(kettles[sim.kettle], power, args.sampletime)
        k2 == cool(k1, args.sampletime, args.ambient_temp, args.heat_loss_factor)
        d2 == deque_append(deques[sim.delayed_temps], k2.temp)
        l1 == [lists EXCEPT ![sim.timestamps] = Append(@, ts)]
        l2 == [l1 EXCEPT ![sim.outputs] = Append(@, output)]
        l3 == [l2 EXCEPT ![sim.sensor_temps] = Append(@, d2.items[1])]
        l4 == [l3 EXCEPT ![sim.heater_temps] = Append(@, k2.temp)]
    IN  [kettles |-> [kettles EXCEPT ![sim.kettle] = k2],
         deques |-> [deques EXCEPT ![sim.delayed_temps] = d2],
         lists |-> l4,
         power |-> power,
         heated |-> k1.temp]

\* Mutant of sim_update: the kettle is cooled before it is heated.
sim_update_cool_before_heat(sim, ts, output) ==
    LET power == RMul(args.heater_power, RDiv(output, args.out_max))
        k1 == cool(kettles[sim.kettle], args.sampletime, args.ambient_temp,
                   args.heat_loss_factor)
        k2 == heat(k1, power, args.sampletime)
        d2 == deque_append(deques[sim.delayed_temps], k2.temp)
        l1 == [lists EXCEPT ![sim.timestamps] = Append(@, ts)]
        l2 == [l1 EXCEPT ![sim.outputs] = Append(@, output)]
        l3 == [l2 EXCEPT ![sim.sensor_temps] = Append(@, d2.items[1])]
        l4 == [l3 EXCEPT ![sim.heater_temps] = Append(@, k2.temp)]
    IN  [kettles |-> [kettles EXCEPT ![sim.kettle] = k2],
         deques |-> [deques EXCEPT ![sim.delayed_temps] = d2],
         lists |-> l4,
         power |-> power,
         heated |-> k1.temp]

\* Mutant of sim_update: the timestamp recorded is the one before the
\* caller's advance.
sim_update_stale_timestamp(sim, ts, output) ==
    LET power == RMul(args.heater_power, RDiv(output, args.out_max))
        k1 == heat(kettles[sim.kettle], power, args.sampletime)
        k2 == cool(k1, args.sampletime, args.ambient_temp, args.heat_loss_factor)
        d2 == deque_append(deques[sim.delayed_temps], k2.temp)
        l1 == [lists EXCEPT ![sim.timestamps] = Append(@, RSub(ts, args.sampletime))]
        l2 == [l1 EXCEPT ![sim.outputs] = Append(@, output)]
        l3 == [l2 EXCEPT ![sim.sensor_temps] = Append(@, d2.items[1])]
        l4 == [l3 EXCEPT ![sim.heater_temps] = Append(@, k2.temp)]
    IN  [kettles |-> [kettles EXCEPT ![sim.kettle] = k2],
         deques |-> [deques EXCEPT ![sim.delayed_temps] = d2],
         lists |-> l4,
         power |-> power,
         heated |-> k1.temp]

\* sim_update: the heaps after the call, and the power handed to heat().
sim_update(sim, ts, output) ==
    LET power == RMul(args.heater_power, RDiv(output, args.out_max))
        k1 == heat(kettles[sim.kettle], power, args.sampletime)
        k2 == cool(k1, args.sampletime, args.ambient_temp, args.heat_loss_factor)
        d2 == deque_append(deques[sim.delayed_temps], k2.temp)
        l1 == [lists EXCEPT ![sim.timestamps] = Append(@, ts)]
        l2 == [l1 EXCEPT ![sim.outputs] = Append(@, output)]
        l3 == [l2 EXCEPT ![sim.sensor_temps] = Append(@, d2.items[1])]
        l4 == [l3 EXCEPT ![sim.heater_temps] = Append(@, k2.temp)]
    IN  [kettles |-> [kettles EXCEPT ![sim.kettle] = k2],
         deques |-> [deques EXCEPT ![sim.delayed_temps] = d2],
         lists |-> l4,
         power |-> power,
         heated |-> k1.temp]

\* Mutant of clamp: the output is bounded from below only.
clamp_lower_only(output) == RMax(output, args.out_min)

\* output = max(output, args.out_min); output = min(output, args.out_max)
clamp(output) == RMin(RMax(output, args.out_min), args.out_max)

\* Mutant of pid_continue: the loop test written with <=.
pid_continue_inclusive == RLe(timestamp, RMul(R(args.interval), R(60)))

\* Mutant of pid_continue: the loop stops one iteration early.
pid_continue_lookahead ==
    RLt(RAdd(timestamp, args.sampletime), RMul(R(args.interval), R(60)))

\* The test of simulate_pid's while loop.
pid_continue == RLt(timestamp, RMul(R(args.interval), R(60)))

----------------------------------------------------------------------------
(* Inputs.  The kettle of the runs is a small one whose numbers stay short  *)
(* as exact fractions: 14 cm wide, 0.672 l, 0.465168 kg of brass, so that   *)
(* the surface is 0.05 m^2 and the thermal mass 3 kJ/K.  With a heat loss   *)
(* factor of 250 one call of cool() removes a fifth of the difference to    *)
(* the ambient temperature (a tenth with 125).                              *)

\* The largest number of steps after which the auto-tune controller of a
\* run signals completion.
MaxK == 4

\* The number of heat/cool calls made on one kettle on its own.
MaxOps == 2

SmallVolume == <<84, 125>>

SmallMass == <<29073, 62500>>

BaseArgs ==
    [autotune |-> FALSE, pid |-> <<>>,
     kettle_temp |-> R(40), setpoint |-> R(45), ambient_temp |-> R(20),
     interval |-> 1, delay |-> R(15), sampletime |-> R(15),
     volume |-> SmallVolume, diameter |-> R(14), kettle_mass |-> SmallMass,
     heater_power |-> R(6), heat_loss_factor |-> R(250),
     out_min |-> R(0), out_max |-> R(100)]

\* (delay, sampletime) pairs: capacities 1 (ratio rounds to 0), 1, 2, 2
\* (2.5 rounds to even) and 3 at 15 s; 1, 1, 2, 2 at 20 s and at 25 s.
Delays == {<<15, 2>>, R(15), R(30), <<75, 2>>, R(45)}

SampleTimes == {R(15), R(20), R(25)}

\* (out_min, out_max)
OutRanges == {<<R(0), R(100)>>, <<R(10), R(50)>>}

Intervals == {0, 1}

\* The -p options given: one run or two.
PidLists == {<<"a">>, <<"a", "b">>}

\* A diameter of 0 makes Kettle() raise inside the driver.
Diameters == {R(14), R(0)}

\* The combinations explored: every single feedback run; two feedback runs
\* side by side at 20 s and 25 s; auto-tune at 15 s; and the zero diameter
\* once per mode.
Explored(a) ==
    /\ a.diameter = R(0) =>
          a.delay = R(15) /\ a.sampletime = R(15) /\ a.interval = 1
    /\ a.autotune => a.sampletime = R(15) /\ a.interval = 1
    /\ Len(a.pid) = 2 =>
          /\ a.sampletime \in {R(20), R(25)}
          /\ a.delay = R(30)
          /\ a.interval = 1
          /\ a.out_max = R(100)

ArgsSet ==
    {a \in
        {[BaseArgs EXCEPT !.autotune = m[1], !.pid = m[2], !.delay = d,
                          !.sampletime = st, !.out_min = o[1], !.out_max = o[2],
                          !.interval = iv, !.diameter = dm] :
            m \in ({<<TRUE, <<>> >>} \cup {<<FALSE, p>> : p \in PidLists}),
            d \in Delays, st \in SampleTimes, o \in OutRanges,
            iv \in Intervals, dm \in Diameters} :
        Explored(a)}

\* What a feedback controller's calc() may return, and what an auto-tune
\* controller's output field may hold: below, within and above the ranges.
ControllerOutputs == {R(0 - 20), R(30), R(120)}

NoSut == [K |-> 0, calls |-> 0, output |-> R(0)]

NoLast == [op |-> "none"]

Init ==
    /\ args \in ArgsSet
    /\ pc = "main"
    /\ timestamp = R(0)
    /\ sims = <<>>
    /\ idx = 0
    /\ kettles = <<>>
    /\ deques = <<>>
    /\ lists = <<>>
    /\ sut = NoSut
    /\ last = NoLast

----------------------------------------------------------------------------
(* simulate_pid                                                            *)

\* The heaps right after the driver constructed n Simulations around copies
\* of kettle k0 and filled every deque with the initial temperature.
NewKettles(n, k0) == [i \in 1..n |-> k0]

NewDeques(n) ==
    [i \in 1..n |->
        deque_extend(NewDeque(delayed_temps_len(args)),
                     Repeat(delayed_temps_len(args), args.kettle_temp))]

NewLists(n) == [j \in 1..(4 * n) |-> <<>>]

\* Lines 205-226: the Simulations are built; Kettle() may raise.
SimulatePidSetup ==
    /\ pc = "main"
    /\ ~args.autotune
    /\ args.pid # <<>>
    /\ LET n == Len(args.pid)
           k0 == Kettle_init(args.diameter, args.volume, args.kettle_temp,
                             args.kettle_mass)
       IN  IF Raised(k0)
           THEN /\ pc' = "raised"
                /\ last' = [op |-> "Kettle", raised |-> k0.raised]
                /\ UNCHANGED <<timestamp, sims, idx, kettles, deques, lists>>
           ELSE /\ pc' = "pid_loop"
                /\ timestamp' = R(0)
                /\ sims' = [i \in 1..n |-> Simulation(i, args.pid[i])]
                /\ kettles' = NewKettles(n, k0)
                /\ deques' = NewDeques(n)
                /\ lists' = NewLists(n)
                /\ idx' = 0
                /\ last' = [op |-> "setup"]
    /\ UNCHANGED <<args, sut>>

\* Lines 229-230: the loop test and the advance of the shared timestamp.
SimulatePidLoop ==
    /\ pc = "pid_loop"
    /\ IF pid_continue
       THEN /\ timestamp' = RAdd(timestamp, args.sampletime)
            /\ idx' = 1
            /\ pc' = "pid_inner"
       ELSE /\ pc' = "done"
            /\ UNCHANGED <<timestamp, idx>>
    /\ UNCHANGED <<args, sims, kettles, deques, lists, sut, last>>

\* Mutant of SimulatePidStep: the timestamp is advanced inside the inner
\* loop, once per run.
SimulatePidStep_own_clock ==
    /\ pc = "pid_inner"
    /\ timestamp' = RAdd(timestamp, args.sampletime)
    /\ \E raw \in ControllerOutputs :
         LET sim == sims[idx]
             observed == deques[sim.delayed_temps].items[1]
             output == clamp(raw)
             u == sim_update(sim, timestamp', output)
         IN  /\ kettles' = u.kettles
             /\ deques' = u.deques
             /\ lists' = u.lists
             /\ last' = [op |-> "sim_update", sim |-> idx, observed |-> observed,
                         raw |-> raw, output |-> output, power |-> u.power,
                         heated |-> u.heated]
    /\ idx' = idx + 1
    /\ pc' = IF idx < Len(sims) THEN "pid_inner" ELSE "pid_loop"
    /\ UNCHANGED <<args, sims, sut>>

\* Mutant of SimulatePidStep: calc() is handed the front of the buffer after
\* the step's push, the sensor temperature recorded for the same step.
SimulatePidStep_observes_after_push ==
    /\ pc = "pid_inner"
    /\ \E raw \in ControllerOutputs :
         LET sim == sims[idx]
             output == clamp(raw)
             u == sim_update(sim, timestamp, output)
             observed == u.deques[sim.delayed_temps].items[1]
         IN  /\ kettles' = u.kettles
             /\ deques' = u.deques
             /\ lists' = u.lists
             /\ last' = [op |-> "sim_update", sim |-> idx, observed |-> observed,
                         raw |-> raw, output |-> output, power |-> u.power,
                         heated |-> u.heated]
    /\ idx' = idx + 1
    /\ pc' = IF idx < Len(sims) THEN "pid_inner" ELSE "pid_loop"
    /\ UNCHANGED <<args, timestamp, sims, sut>>

\* Lines 232-236: one run's step of the inner loop; calc() returns raw.
SimulatePidStep ==
    /\ pc = "pid_inner"
    /\ \E raw \in ControllerOutputs :
         LET sim == sims[idx]
             observed == deques[sim.delayed_temps].items[1]
             output == clamp(raw)
             u == sim_update(sim, timestamp, output)
         IN  /\ kettles' = u.kettles
             /\ deques' = u.deques
             /\ lists' = u.lists
             /\ last' = [op |-> "sim_update", sim |-> idx, observed |-> observed,
                         raw |-> raw, output |-> output, power |-> u.power,
                         heated |-> u.heated]
    /\ idx' = idx + 1
    /\ pc' = IF idx < Len(sims) THEN "pid_inner" ELSE "pid_loop"
    /\ UNCHANGED <<args, timestamp, sims, sut>>

----------------------------------------------------------------------------
(* simulate_autotune                                                       *)

\* Lines 156-170: one Simulation; the controller will report completion on
\* its call number K + 1.
SimulateAutotuneSetup ==
    /\ pc = "main"
    /\ args.autotune
    /\ LET k0 == Kettle_init(args.diameter, args.volume, args.kettle_temp,
                             args.kettle_mass)
       IN  IF Raised(k0)
           THEN /\ pc' = "raised"
                /\ last' = [op |-> "Kettle", raised |-> k0.raised]
                /\ UNCHANGED <<timestamp, sims, idx, kettles, deques, lists, sut>>
           ELSE /\ pc' = "autotune_loop"
                /\ timestamp' = R(0)
                /\ sims' = <<Simulation(1, "autotune")>>
                /\ kettles' = NewKettles(1, k0)
                /\ deques' = NewDeques(1)
                /\ lists' = NewLists(1)
                /\ idx' = 1
                /\ \E k \in 0..MaxK : sut' = [K |-> k, calls |-> 0, output |-> R(0)]
                /\ last' = [op |-> "setup"]
    /\ UNCHANGED args

\* Lines 173-175: run() returned False and left o in the output field.
SimulateAutotuneStep ==
    /\ pc = "autotune_loop"
    /\ sut.calls < sut.K
    /\ \E o \in ControllerOutputs :
         LET sim == sims[1]
             observed == deques[sim.delayed_temps].items[1]
             ts == RAdd(timestamp, args.sampletime)
             u == sim_update(sim, ts, o)
         IN  /\ sut' = [sut EXCEPT !.calls = @ + 1, !.output = o]
             /\ timestamp' = ts
             /\ kettles' = u.kettles
             /\ deques' = u.deques
             /\ lists' = u.lists
             /\ last' = [op |-> "sim_update", sim |-> 1, observed |-> observed,
                         raw |-> o, output |-> o, power |-> u.power,
                         heated |-> u.heated]
    /\ UNCHANGED <<args, pc, sims, idx>>

\* Mutant of SimulateAutotuneEnd: the loop tests the flag after the step, so
\* the call of run() that reports completion is followed by one more step.
SimulateAutotuneEnd_after_step ==
    /\ pc = "autotune_loop"
    /\ sut.calls >= sut.K
    /\ LET sim == sims[1]
           observed == deques[sim.delayed_temps].items[1]
           ts == RAdd(timestamp, args.sampletime)
           u == sim_update(sim, ts, sut.output)
       IN  /\ sut' = [sut EXCEPT !.calls = @ + 1]
           /\ timestamp' = ts
           /\ kettles' = u.kettles
           /\ deques' = u.deques
           /\ lists' = u.lists
           /\ last' = [op |-> "sim_update", sim |-> 1, observed |-> observed,
                       raw |-> sut.output, output |-> sut.output,
                       power |-> u.power, heated |-> u.heated]
    /\ pc' = "done"
    /\ UNCHANGED <<args, sims, idx>>

\* Line 173: run() returned True; the loop ends.
SimulateAutotuneEnd ==
    /\ pc = "autotune_loop"
    /\ sut.calls >= sut.K
    /\ sut' = [sut EXCEPT !.calls = @ + 1]
    /\ pc' = "done"
    /\ last' = [op |-> "run", done |-> TRUE]
    /\ UNCHANGED <<args, timestamp, sims, idx, kettles, deques, lists>>

Next ==
    \/ SimulatePidSetup
    \/ SimulatePidLoop
    \/ SimulatePidStep
    \/ SimulateAutotuneSetup
    \/ SimulateAutotuneStep
    \/ SimulateAutotuneEnd

Spec == Init /\ [][Next]_vars

----------------------------------------------------------------------------
(* A Kettle on its own: constructed from args, then heated and cooled.     *)

\* (diameter, volume, kettle_mass): the small kettle, and kettles of zero
\* or negative diameter or volume.
Geometries ==
    {<<R(14), SmallVolume, SmallMass>>,
     <<R(0), SmallVolume, SmallMass>>,
     <<R(0 - 14), <<707, 250>>, <<197541, 500000>> >>,
     <<R(14), R(0), <<231, 50>> >>,
     <<R(14), <<0 - 91, 125>>, <<30267, 250000>> >>}

KettleArgsSet ==
    {[BaseArgs EXCEPT !.diameter = g[1], !.volume = g[2], !.kettle_mass = g[3],
                      !.kettle_temp = t] :
        g \in Geometries, t \in {R(20), R(40)}}

HeatPowers == {R(0), R(3)}

Durations == {R(5), R(15)}

AmbientTemps == {R(20), R(40), R(60)}

HeatLossFactors == {R(0), R(125), R(250)}

KettleInit ==
    /\ args \in KettleArgsSet
    /\ pc = "kettle_new"
    /\ timestamp = R(0)
    /\ sims = <<>>
    /\ idx = 0
    /\ kettles = <<>>
    /\ deques = <<>>
    /\ lists = <<>>
    /\ sut = NoSut
    /\ last = NoLast

\* Kettle(args.diameter, args.volume, args.kettle_temp, args.kettle_mass)
KettleNew ==
    /\ pc = "kettle_new"
    /\ LET k0 == Kettle_init(args.diameter, args.volume, args.kettle_temp,
                             args.kettle_mass)
       IN  IF Raised(k0)
           THEN /\ pc' = "raised"
                /\ last' = [op |-> "Kettle", raised |-> k0.raised]
                /\ UNCHANGED kettles
           ELSE /\ pc' = "kettle_ready"
                /\ kettles' = <<k0>>
                /\ last' = [op |-> "Kettle"]
    /\ UNCHANGED <<args, timestamp, sims, idx, deques, lists, sut>>

\* kettle.heat(power, duration)
KettleHeat ==
    /\ pc = "kettle_ready"
    /\ idx < MaxOps
    /\ \E power \in HeatPowers, duration \in Durations :
         /\ kettles' = <<heat(kettles[1], power, duration)>>
         /\ last' = [op |-> "heat", before |-> kettles[1].temp, power |-> power,
                     duration |-> duration]
    /\ idx' = idx + 1
    /\ UNCHANGED <<args, pc, timestamp, sims, deques, lists, sut>>

\* kettle.cool(duration, ambient_temp, heat_loss_factor)
KettleCool ==
    /\ pc = "kettle_ready"
    /\ idx < MaxOps
    /\ \E duration \in Durations, ambient \in AmbientTemps, hlf \in HeatLossFactors :
         /\ kettles' = <<cool(kettles[1], duration, ambient, hlf)>>
         /\ last' = [op |-> "cool", before |-> kettles[1].temp,
                     duration |-> duration, ambient_temp |-> ambient,
                     heat_loss_factor |-> hlf]
    /\ idx' = idx + 1
    /\ UNCHANGED <<args, pc, timestamp, sims, deques, lists, sut>>

KettleNext == KettleNew \/ KettleHeat \/ KettleCool

KettleSpec == KettleInit /\ [][KettleNext]_vars

----------------------------------------------------------------------------
(* Reading a run's objects through its Simulation tuple.                   *)

Runs == DOMAIN sims

KettleOf(i) == kettles[sims[i].kettle]

DequeOf(i) == deques[sims[i].delayed_temps].items

TimestampsOf(i) == lists[sims[i].timestamps]

OutputsOf(i) == lists[sims[i].outputs]

SensorTempsOf(i) == lists[sims[i].sensor_temps]

HeaterTempsOf(i) == lists[sims[i].heater_temps]

InOutRange(x) == RLe(args.out_min, x) /\ RLe(x, args.out_max)

EqualLengths(i) ==
    /\ Len(OutputsOf(i)) = Len(TimestampsOf(i))
    /\ Len(SensorTempsOf(i)) = Len(TimestampsOf(i))
    /\ Len(HeaterTempsOf(i)) = Len(TimestampsOf(i))

Running == pc \in {"pid_loop", "pid_inner", "autotune_loop", "done"}

----------------------------------------------------------------------------
(* Claims                                                                  *)

\* C1: in both stepping modes, every recorded output and the output from
\* which the applied heater power is computed lie in [out_min, out_max],
\* whatever the controller returned or exposes.
C1_OutputAlwaysClamped ==
    /\ \A i \in Runs : \A j \in 1..Len(OutputsOf(i)) : InOutRange(OutputsOf(i)[j])
    /\ last.op = "sim_update" =>
          /\ InOutRange(last.output)
          /\ last.power = RMul(args.heater_power, RDiv(last.output, args.out_max))

\* C2 as stated: with a delay buffer of capacity N the recorded sensor
\* temperatures lag the recorded heater temperatures by N steps, and the
\* first N sensor readings are the initial temperature.
C2_SensorLagsByCapacity ==
    \A i \in Runs :
        LET N == Len(DequeOf(i))
        IN  \A j \in 1..Len(SensorTempsOf(i)) :
                IF j > N
                THEN SensorTempsOf(i)[j] = HeaterTempsOf(i)[j - N]
                ELSE SensorTempsOf(i)[j] = args.kettle_temp

\* C2 amended: the recorded sensor temperatures lag the recorded heater
\* temperatures by N - 1 steps (the front is read after the push), and only
\* the first N - 1 sensor readings are the initial temperature.
C2_SensorLagsByCapacityMinusOne ==
    \A i \in Runs :
        LET N == Len(DequeOf(i))
        IN  \A j \in 1..Len(SensorTempsOf(i)) :
                IF j > N - 1
                THEN SensorTempsOf(i)[j] = HeaterTempsOf(i)[j - (N - 1)]
                ELSE SensorTempsOf(i)[j] = args.kettle_temp

\* A run with capacity 3 that recorded four steps, the heater temperature
\* having changed between the first two.
C2_Witness ==
    \E i \in Runs :
        /\ Len(DequeOf(i)) = 3
        /\ Len(SensorTempsOf(i)) = 4
        /\ HeaterTempsOf(i)[1] # HeaterTempsOf(i)[2]
        /\ SensorTempsOf(i)[4] = HeaterTempsOf(i)[2]

\* C3: once a run exists its delay buffer holds exactly
\* max(1, round(delay / sampletime)) entries, before and after every step
\* of either mode, all equal to the initial temperature before the first
\* step.  (n = round(q) is stated as |q - n| <= 1/2.)
C3_BufferAtCapacity ==
    Running =>
        \A i \in Runs :
            LET n == Len(DequeOf(i))
                twice == RMul(R(2), RDiv(args.delay, args.sampletime))
            IN  /\ n >= 1
                /\ RLe(twice, R(2 * n + 1))
                /\ n > 1 => RLe(R(2 * n - 1), twice)
                /\ Len(TimestampsOf(i)) = 0 =>
                      \A j \in 1..n : DequeOf(i)[j] = args.kettle_temp

\* A ratio that rounds to zero (7.5 s of delay sampled every 15 s): the
\* buffer holds one entry after three steps.
C3_Witness ==
    /\ Running
    /\ PyRound(RDiv(args.delay, args.sampletime)) = 0
    /\ \E i \in Runs : Len(TimestampsOf(i)) = 3 /\ Len(DequeOf(i)) = 1

\* Run i takes its step in this transition.
Stepped(i) ==
    \/ pc = "pid_inner" /\ idx = i
    \/ pc = "autotune_loop" /\ i = 1 /\ sut.calls < sut.K

\* C4: the four recorded sequences of a run have equal length in every
\* state, are empty when the run is created, and each grows by exactly one
\* in a step of the run and not otherwise.
C4_RecordsInLockstep ==
    [][\A i \in Runs' :
          /\ EqualLengths(i)'
          /\ IF i \in Runs
             THEN /\ EqualLengths(i)
                  /\ Len(TimestampsOf(i))' =
                        Len(TimestampsOf(i)) + (IF Stepped(i) THEN 1 ELSE 0)
             ELSE Len(TimestampsOf(i))' = 0]_vars

\* Two runs, the first one step ahead of the second inside an iteration.
C4_Witness ==
    /\ pc = "pid_inner"
    /\ Len(sims) = 2
    /\ idx = 2
    /\ Len(OutputsOf(1)) = 3
    /\ Len(HeaterTempsOf(2)) = 2

\* C5: when a feedback simulation ends, each recorded sequence has the
\* smallest length n with n * sampletime >= interval * 60.
C5_FeedbackRecordLength ==
    (pc = "done" /\ ~args.autotune) =>
        \A i \in Runs :
            LET n == Len(TimestampsOf(i))
                budget == RMul(R(args.interval), R(60))
            IN  /\ EqualLengths(i)
                /\ RLe(budget, RMul(R(n), args.sampletime))
                /\ n > 0 => RLt(RMul(R(n - 1), args.sampletime), budget)

\* A sample time of 25 s does not divide the 60 s: three steps are recorded.
C5_Witness ==
    /\ pc = "done"
    /\ ~args.autotune
    /\ args.sampletime = R(25)
    /\ args.interval = 1
    /\ \A i \in Runs : Len(TimestampsOf(i)) = 3

\* C6: in auto-tune mode the run has recorded one step per call of run()
\* that reported not-complete, and exactly K steps when the run is over.
C6_AutotuneRecordLength ==
    (args.autotune /\ Running) =>
        \A i \in Runs :
            /\ EqualLengths(i)
            /\ Len(TimestampsOf(i)) <= sut.K
            /\ pc = "done" => Len(TimestampsOf(i)) = sut.K

\* An auto-tune run that ended after K = 3 steps.
C6_Witness ==
    /\ args.autotune
    /\ pc = "done"
    /\ sut.K = 3
    /\ Len(sims) = 1
    /\ Len(HeaterTempsOf(1)) = 3

\* C7: in feedback mode any two runs hold the same timestamp at every index
\* both have recorded, and equally many records after every completed
\* outer iteration.
C7_TimestampsAligned ==
    \A a \in Runs : \A b \in Runs :
        /\ \A j \in 1..Len(TimestampsOf(a)) :
              j <= Len(TimestampsOf(b)) => TimestampsOf(a)[j] = TimestampsOf(b)[j]
        /\ pc \in {"pid_loop", "done"} =>
              Len(TimestampsOf(a)) = Len(TimestampsOf(b))

\* Two runs that completed three outer iterations.
C7_Witness ==
    /\ pc = "done"
    /\ Len(sims) = 2
    /\ Len(TimestampsOf(1)) = 3
    /\ Len(TimestampsOf(2)) = 3
    /\ TimestampsOf(2)[3] = R(75)

\* C8: a step of one run leaves the kettle, the delay buffer and the four
\* recorded sequences of every other run unchanged.
C8_StepTouchesOneRun ==
    [][\A i \in Runs :
          (pc = "pid_inner" /\ i # idx) =>
              /\ KettleOf(i)' = KettleOf(i)
              /\ DequeOf(i)' = DequeOf(i)
              /\ TimestampsOf(i)' = TimestampsOf(i)
              /\ OutputsOf(i)' = OutputsOf(i)
              /\ SensorTempsOf(i)' = SensorTempsOf(i)
              /\ HeaterTempsOf(i)' = HeaterTempsOf(i)]_vars

\* The second of two runs has just been stepped with an output other than
\* the first one's: their kettles have parted.
C8_Witness ==
    /\ Len(sims) = 2
    /\ pc = "pid_loop"
    /\ last.op = "sim_update"
    /\ last.sim = 2
    /\ OutputsOf(1) # OutputsOf(2)
    /\ KettleOf(1).temp # KettleOf(2).temp

ValidGeometry ==
    /\ RLt(R(0), args.diameter)
    /\ RLt(R(0), args.volume)
    /\ RLe(R(0), args.kettle_mass)

\* C9: constructing a Kettle with a non-positive diameter or volume raises,
\* and no kettle with a non-positive surface or water mass exists.
C9_InvalidGeometryRaises ==
    pc # "kettle_new" =>
        /\ (RLe(args.diameter, R(0)) \/ RLe(args.volume, R(0))) => pc = "raised"
        /\ \A i \in DOMAIN kettles :
              RLt(R(0), kettles[i].surface) /\ RLt(R(0), kettles[i].waterMass)

C11_AutotunePowerIsPercent ==
    last.op = "sim_update" =>
        IF args.autotune
        THEN RMul(last.power, R(100)) = RMul(args.heater_power, last.output)
        ELSE RMul(last.power, args.out_max) = RMul(args.heater_power, last.output)

\* C11 amended: in both modes the power handed to heat() is
\* heater_power * output / out_max, output being the value recorded.
C11_PowerIsShareOfOutMax ==
    last.op = "sim_update" =>
        /\ RMul(last.power, args.out_max) = RMul(args.heater_power, last.output)
        /\ last.output = OutputsOf(last.sim)[Len(OutputsOf(last.sim))]

\* An auto-tune step with out_max = 50 and an output of 30: 3.6 kW of the
\* 6 kW, not 1.8 kW.
C11_Witness ==
    /\ args.autotune
    /\ last.op = "sim_update"
    /\ args.out_max = R(50)
    /\ last.output = R(30)
    /\ last.power = <<18, 5>>

\* C12: the delay buffer is a first-in-first-out window: after k pushes into
\* a buffer of capacity N filled with the initial temperature T it holds,
\* oldest first, N - min(k, N) copies of T and then the last min(k, N)
\* pushed temperatures in the order of the pushes.
C12_BufferIsFifoWindow ==
    Running =>
        \A i \in Runs :
            LET N == deques[sims[i].delayed_temps].maxlen
                k == Len(HeaterTempsOf(i))
            IN  /\ Len(DequeOf(i)) = N
                /\ \A j \in 1..N :
                      DequeOf(i)[j] =
                          IF k - N + j >= 1
                          THEN HeaterTempsOf(i)[k - N + j]
                          ELSE args.kettle_temp

\* Four pushes of pairwise different temperatures into a buffer of
\* capacity 3: the front is the third-from-last pushed one.
C12_Witness ==
    \E i \in Runs :
        /\ Len(DequeOf(i)) = 3
        /\ Len(HeaterTempsOf(i)) = 4
        /\ \A a \in 1..4 : \A b \in 1..4 :
              a # b => HeaterTempsOf(i)[a] # HeaterTempsOf(i)[b]
        /\ DequeOf(i)[1] = HeaterTempsOf(i)[2]
        /\ DequeOf(i)[1] # args.kettle_temp

\* C13: a step heats the kettle, then cools it, then pushes the cooled
\* temperature and records: after every step the last recorded sensor
\* temperature is the front of the delay buffer, and the last recorded
\* heater temperature is its back and the kettle's temperature.
C13_StepOrder ==
    [][\A i \in Runs' :
          /\ Len(HeaterTempsOf(i))' > 0 =>
                /\ SensorTempsOf(i)'[Len(SensorTempsOf(i)')] = DequeOf(i)'[1]
                /\ HeaterTempsOf(i)'[Len(HeaterTempsOf(i)')] =
                      DequeOf(i)'[Len(DequeOf(i)')]
                /\ HeaterTempsOf(i)'[Len(HeaterTempsOf(i)')] = KettleOf(i)'.temp
          /\ (i \in Runs /\ Stepped(i)) =>
                KettleOf(i)' =
                    cool(heat(KettleOf(i), last'.power, args.sampletime),
                         args.sampletime, args.ambient_temp,
                         args.heat_loss_factor)]_vars

\* A step that heated and then cooled, with a buffer of three entries whose
\* front is not its back.
C13_Witness ==
    /\ last.op = "sim_update"
    /\ last.power # R(0)
    /\ last.heated # KettleOf(last.sim).temp
    /\ Len(DequeOf(last.sim)) = 3
    /\ DequeOf(last.sim)[1] # DequeOf(last.sim)[3]
    /\ SensorTempsOf(last.sim)[Len(SensorTempsOf(last.sim))] # KettleOf(last.sim).temp

\* The time budget of a feedback simulation, in seconds.
Budget == RMul(R(args.interval), R(60))

\* The iterations of the feedback loop still to come when the timestamp is
\* t: the least n with t + n * sampletime >= interval * 60.
IterationsLeft(t) ==
    LET q == RDiv(RSub(Budget, t), args.sampletime)
    IN  IF q[1] <= 0 THEN 0 ELSE (q[1] + q[2] - 1) \div q[2]

\* The steps the feedback loop still takes from position p with timestamp t
\* and run i next: per iteration the loop test and one step per run, and
\* the final loop test.
StepsLeft(p, t, i) ==
    IF p = "pid_loop" THEN IterationsLeft(t) * (Len(sims) + 1) + 1
    ELSE IF p = "pid_inner"
         THEN IterationsLeft(t) * (Len(sims) + 1) + 1 + (Len(sims) - i + 1)
         ELSE 0

\* C14: the feedback loop runs an iteration exactly when the timestamp is
\* below interval * 60 at the loop test, advances the timestamp by exactly
\* sampletime per iteration and not otherwise, cannot be left from inside
\* an iteration, ends with timestamp >= interval * 60, and ends after
\* finitely many steps: inside the loop the next step is always defined and
\* every step lowers the finite count of the steps left.
C14_FeedbackLoopTerminates ==
    /\ [][pc = "pid_loop" =>
            IF RLt(timestamp, Budget)
            THEN pc' = "pid_inner" /\ timestamp' = RAdd(timestamp, args.sampletime)
            ELSE pc' = "done" /\ timestamp' = timestamp]_vars
    /\ [][pc = "pid_inner" =>
            pc' \in {"pid_inner", "pid_loop"} /\ timestamp' = timestamp]_vars
    /\ []((pc = "done" /\ ~args.autotune) => RLe(Budget, timestamp))
    /\ [](pc = "pid_inner" => idx \in 1..Len(sims))
    /\ [][(pc = "pid_loop" \/ pc = "pid_inner") =>
            (/\ StepsLeft(pc', timestamp', idx') >= 0
             /\ StepsLeft(pc', timestamp', idx') < StepsLeft(pc, timestamp, idx))]_vars

\* A feedback simulation sampled every 25 s has ended, at 75 s.
C14_Witness ==
    /\ pc = "done"
    /\ ~args.autotune
    /\ args.sampletime = R(25)
    /\ timestamp = R(75)
    /\ RLt(Budget, timestamp)

C16_ControllerSeesPreviousSensor ==
    last.op = "sim_update" =>
        LET n == Len(SensorTempsOf(last.sim))
            N == deques[sims[last.sim].delayed_temps].maxlen
        IN  /\ last.observed =
                  IF n = 1 THEN args.kettle_temp ELSE SensorTempsOf(last.sim)[n - 1]
            /\ last.observed =
                  IF n - N >= 1 THEN HeaterTempsOf(last.sim)[n - N]
                  ELSE args.kettle_temp

\* A run with a buffer of two entries made its fourth step: the controller
\* saw the heater temperature of the second step, which is neither the
\* initial temperature nor the sensor temperature recorded at this step.
C16_Witness ==
    /\ last.op = "sim_update"
    /\ Len(SensorTempsOf(last.sim)) = 4
    /\ deques[sims[last.sim].delayed_temps].maxlen = 2
    /\ last.observed = HeaterTempsOf(last.sim)[2]
    /\ last.observed # args.kettle_temp
    /\ last.observed # SensorTempsOf(last.sim)[4]

\* C17: the j-th timestamp a run records is j * sampletime, so the
\* timestamps start at sampletime, never at 0, and rise by sampletime from
\* one to the next; and when a feedback simulation that recorded anything
\* has ended, the last timestamp t of every run satisfies
\* interval * 60 <= t < interval * 60 + sampletime.
C17_TimestampsEvenlySpaced ==
    Running =>
        \A i \in Runs :
            LET ts == TimestampsOf(i)
            IN  /\ \A j \in 1..Len(ts) : ts[j] = RMul(R(j), args.sampletime)
                /\ Len(ts) > 0 => ts[1] = args.sampletime /\ ts[1] # R(0)
                /\ \A j \in 2..Len(ts) :
                      /\ RLt(ts[j - 1], ts[j])
                      /\ RSub(ts[j], ts[j - 1]) = args.sampletime
                /\ (pc = "done" /\ ~args.autotune /\ Len(ts) > 0) =>
                      /\ RLe(Budget, ts[Len(ts)])
                      /\ RLt(ts[Len(ts)], RAdd(Budget, args.sampletime))

\* A feedback simulation of 60 s sampled every 25 s has ended: three
\* timestamps were recorded and the last one, 75 s, is beyond the budget.
C17_Witness ==
    /\ pc = "done"
    /\ ~args.autotune
    /\ args.sampletime = R(25)
    /\ TimestampsOf(1) = <<R(25), R(50), R(75)>>
    /\ RLt(Budget, TimestampsOf(1)[3])

\* C18: in feedback mode, with 0 <= out_min <= out_max, out_max > 0 and
\* heater_power >= 0, the power handed to heat() at a step is at least
\* heater_power * out_min / out_max and at most heater_power, whatever
\* calc() returned: it is never negative and never above the rated power.
C18_FeedbackPowerWithinRating ==
    (/\ last.op = "sim_update"
     /\ ~args.autotune
     /\ RLe(R(0), args.out_min)
     /\ RLe(args.out_min, args.out_max)
     /\ RLt(R(0), args.out_max)
     /\ RLe(R(0), args.heater_power)) =>
        /\ RLe(RDiv(RMul(args.heater_power, args.out_min), args.out_max),
               last.power)
        /\ RLe(last.power, args.heater_power)
        /\ RLe(R(0), last.power)

\* A feedback step whose controller asked for more than out_max was run at
\* the rated power, in a run whose controller had earlier asked for less
\* than out_min = 10 and got a fifth of the rated power.
C18_Witness ==
    /\ last.op = "sim_update"
    /\ ~args.autotune
    /\ args.out_min = R(10)
    /\ args.out_max = R(50)
    /\ RLt(args.out_max, last.raw)
    /\ last.power = args.heater_power
    /\ \E j \in 1..Len(OutputsOf(last.sim)) : OutputsOf(last.sim)[j] = args.out_min

====
